---- MODULE Spec2Model ----
(***************************************************************************)
(* A model of the nihilism game server (skorotkiewicz/nihilism):           *)
(*   src/src/game.rs        Player, Loop, PersistentMemory, GameState      *)
(*   src/src/endings.rs     check_for_ending                               *)
(*   src/src/persistence.rs save_player / load_player                      *)
(*   src/src/routes.rs      the request handlers                           *)
(*   src/src/llm.rs         what generate_narrative makes of a reply       *)
(*                                                                         *)
(* A Player is the record                                                  *)
(*   [current_loop |-> [number, choices_made],                             *)
(*    memory |-> [total_loops, total_choices, dark_choices, light_choices, *)
(*                key_memories, nihilism_score],                           *)
(*    narrative_history |-> sequence of moments]                           *)
(* The fields no code path reads or writes after construction (name,       *)
(* created_at, started_at, ended_at, outcome, character_deaths,            *)
(* truths_discovered) are left out; the player's id is the key under which *)
(* the registry and the store hold it.  A NarrativeMoment is kept by its   *)
(* text, the only field the server reads back.  Strings the code searches  *)
(* (choice ids and texts) are sequences of one-character strings; moment   *)
(* texts, which the code only compares for equality, are numbers.          *)
(* The u64 counters stay far below 2^64 within the bounds.                 *)
(***************************************************************************)
EXTENDS Integers, Sequences, FiniteSets, TLC

VARIABLES
    players,   \* GameState.players: the HashMap player id -> Player
    disk,      \* data/players/<id>.json: the saved snapshots, player id -> Player
    lock,      \* AppState.game's RwLock: [writer |-> request or 0, readers |-> set]
    reqs,      \* the handler invocations in flight, one per request slot
    result     \* the value the last direct call of check_for_ending returned

vars == <<players, disk, lock, reqs, result>>

----------------------------------------------------------------------------
(* Bounds of the model.                                                    *)

\* concurrent requests (Spec)
MaxChoices == 3
MaxLoops == 1
MaxText == 1
MaxHist == 1

\* one request at a time (SpecService)
SvcMaxChoices == 3
SvcMaxLoops == 1
SvcMaxText == 1
SvcMaxHist == 1

\* choice-scoring specification (SpecScore)
ScoreMaxChoices == 36
ScoreMaxLoopLen == 2
ScoreMaxLoops == 18
ScoreMaxHist == 1

\* memory-retention specification (SpecMemory)
MemMaxLoops == 21
MemMaxHist == 2
MemMaxChoices == 1

\* two players, one request each at a time (SpecPlayers)
PairMaxChoices == 1
PairMaxLoops == 1
PairMaxHist == 1

\* choice-classification specification (SpecClassify)
ClassifyMaxChoices == 1

\* SpecAtomic
AtomicMaxChoices == 1
AtomicMaxLoops == 2
AtomicMaxHist == 1

\* SpecUnknown
UnknownMaxChoices == 3
UnknownMaxLoops == 1
UnknownMaxHist == 1

\* context-rendering specification (SpecContext)
ContextMaxLights == 36
ContextMaxDarks == 22
ContextMaxMemories == 6

----------------------------------------------------------------------------
(* Strings.                                                                *)

UpperChars ==
    <<"A","B","C","D","E","F","G","H","I","J","K","L","M",
      "N","O","P","Q","R","S","T","U","V","W","X","Y","Z">>

LowerChars ==
    <<"a","b","c","d","e","f","g","h","i","j","k","l","m",
      "n","o","p","q","r","s","t","u","v","w","x","y","z">>

\* char::to_lowercase on the ASCII letters; every other character maps to itself
lower_char(c) ==
    IF \E i \in 1..Len(UpperChars) : UpperChars[i] = c
    THEN LowerChars[CHOOSE i \in 1..Len(UpperChars) : UpperChars[i] = c]
    ELSE c

\* str::to_lowercase
to_lowercase(s) == [i \in 1..Len(s) |-> lower_char(s[i])]

\* str::contains(pattern): pat occurs in s as a contiguous substring
str_contains(s, pat) ==
    \E i \in 0..(Len(s) - Len(pat)) : SubSeq(s, i + 1, i + Len(pat)) = pat

\* Vec::contains
vec_contains(v, x) == \E i \in 1..Len(v) : v[i] = x

Min(a, b) == IF a < b THEN a ELSE b
Max(a, b) == IF a > b THEN a ELSE b
Abs(x) == IF x < 0 THEN -x ELSE x

----------------------------------------------------------------------------
(* game.rs: the player record and its operations.                          *)

\* Option<T>: None is the empty sequence, Some(x) the one-element sequence
None == <<>>
Some(x) == <<x>>
is_some(o) == Len(o) > 0
unwrap(o) == o[1]

\* HashMap: a function whose domain is the set of keys present
EmptyMap == [k \in {} |-> 0]
contains_key(m, k) == k \in DOMAIN m
map_insert(m, k, v) == [q \in (DOMAIN m) \cup {k} |-> IF q = k THEN v ELSE m[q]]
map_get(m, k) == IF contains_key(m, k) THEN Some(m[k]) ELSE None

KEY_MEMORIES_CAP == 20
DARK_WEIGHT == 5
LIGHT_WEIGHT == 3
SCORE_MAX == 100
SCORE_MIN == -100

\* Player::new
Player_new ==
    [ current_loop |-> [number |-> 1, choices_made |-> <<>>],
      memory |-> [ total_loops |-> 0,
                   total_choices |-> 0,
                   dark_choices |-> 0,
                   light_choices |-> 0,
                   key_memories |-> <<>>,
                   nihilism_score |-> 0 ],
      narrative_history |-> <<>> ]

\* a variant of capture_memory without the test of the cap
capture_memory_NoCap(pl) ==
    IF Len(pl.narrative_history) > 0
    THEN LET last_moment == pl.narrative_history[Len(pl.narrative_history)] IN
         IF ~vec_contains(pl.memory.key_memories, last_moment.text)
         THEN [pl EXCEPT !.memory.key_memories = Append(@, last_moment.text)]
         ELSE pl
    ELSE pl

\* the "store the outcome of the previous loop" block of Player::reset_loop
capture_memory(pl) ==
    IF Len(pl.narrative_history) > 0
    THEN LET last_moment == pl.narrative_history[Len(pl.narrative_history)] IN
         IF ~vec_contains(pl.memory.key_memories, last_moment.text)
         THEN IF Len(pl.memory.key_memories) < KEY_MEMORIES_CAP
              THEN [pl EXCEPT !.memory.key_memories = Append(@, last_moment.text)]
              ELSE pl
         ELSE pl
    ELSE pl

\* a variant of Player::reset_loop that numbers the new loop before it counts
\* the old one
Player_reset_loop_StaleNumber(pl) ==
    LET fresh == [pl EXCEPT !.current_loop =
                     [number |-> pl.memory.total_loops + 1,
                      choices_made |-> <<>>]]
        counted == [fresh EXCEPT !.memory.total_loops = @ + 1]
        kept == capture_memory(counted)
    IN  [kept EXCEPT !.narrative_history = <<>>]

\* Player::reset_loop
Player_reset_loop(pl) ==
    LET counted == [pl EXCEPT !.memory.total_loops = @ + 1]
        kept == capture_memory(counted)
        fresh == [kept EXCEPT !.current_loop =
                     [number |-> kept.memory.total_loops + 1,
                      choices_made |-> <<>>]]
    IN  [fresh EXCEPT !.narrative_history = <<>>]

\* the statements of Player::reset_loop, one by one
count_loop(pl) == [pl EXCEPT !.memory.total_loops = @ + 1]

replace_loop(pl) ==
    [pl EXCEPT !.current_loop = [number |-> pl.memory.total_loops + 1,
                                 choices_made |-> <<>>]]

clear_history(pl) == [pl EXCEPT !.narrative_history = <<>>]

\* a variant of Player::make_choice that does not count a light choice
Player_make_choice_LightUncounted(pl, choice_id, is_dark) ==
    LET pushed == [pl EXCEPT !.current_loop.choices_made = Append(@, choice_id),
                             !.memory.total_choices = @ + 1]
    IN  IF is_dark
        THEN [pushed EXCEPT
                !.memory.dark_choices = @ + 1,
                !.memory.nihilism_score = Min(@ + DARK_WEIGHT, SCORE_MAX)]
        ELSE [pushed EXCEPT
                !.memory.nihilism_score = Max(@ - LIGHT_WEIGHT, SCORE_MIN)]

\* a variant of Player::make_choice without the upper clamp
Player_make_choice_NoClamp(pl, choice_id, is_dark) ==
    LET pushed == [pl EXCEPT !.current_loop.choices_made = Append(@, choice_id),
                             !.memory.total_choices = @ + 1]
    IN  IF is_dark
        THEN [pushed EXCEPT
                !.memory.dark_choices = @ + 1,
                !.memory.nihilism_score = @ + DARK_WEIGHT]
        ELSE [pushed EXCEPT
                !.memory.light_choices = @ + 1,
                !.memory.nihilism_score = Max(@ - LIGHT_WEIGHT, SCORE_MIN)]

\* a variant of Player::make_choice that weighs a light choice like a dark one
Player_make_choice_SymmetricWeights(pl, choice_id, is_dark) ==
    LET pushed == [pl EXCEPT !.current_loop.choices_made = Append(@, choice_id),
                             !.memory.total_choices = @ + 1]
    IN  IF is_dark
        THEN [pushed EXCEPT
                !.memory.dark_choices = @ + 1,
                !.memory.nihilism_score = Min(@ + DARK_WEIGHT, SCORE_MAX)]
        ELSE [pushed EXCEPT
                !.memory.light_choices = @ + 1,
                !.memory.nihilism_score = Max(@ - DARK_WEIGHT, SCORE_MIN)]

\* a variant of Player::make_choice whose upper clamp stops short of 100
Player_make_choice_ExclusiveMax(pl, choice_id, is_dark) ==
    LET pushed == [pl EXCEPT !.current_loop.choices_made = Append(@, choice_id),
                             !.memory.total_choices = @ + 1]
    IN  IF is_dark
        THEN [pushed EXCEPT
                !.memory.dark_choices = @ + 1,
                !.memory.nihilism_score = Min(@ + DARK_WEIGHT, SCORE_MAX - 1)]
        ELSE [pushed EXCEPT
                !.memory.light_choices = @ + 1,
                !.memory.nihilism_score = Max(@ - LIGHT_WEIGHT, SCORE_MIN)]

\* Player::make_choice
Player_make_choice(pl, choice_id, is_dark) ==
    LET pushed == [pl EXCEPT !.current_loop.choices_made = Append(@, choice_id),
                             !.memory.total_choices = @ + 1]
    IN  IF is_dark
        THEN [pushed EXCEPT
                !.memory.dark_choices = @ + 1,
                !.memory.nihilism_score = Min(@ + DARK_WEIGHT, SCORE_MAX)]
        ELSE [pushed EXCEPT
                !.memory.light_choices = @ + 1,
                !.memory.nihilism_score = Max(@ - LIGHT_WEIGHT, SCORE_MIN)]

\* narrative_history.push(moment), as the handlers do after a generation
push_moment(pl, moment) ==
    [pl EXCEPT !.narrative_history = Append(@, moment)]

\* the categorical label of the score line, with the bounds inclusive
score_label_Inclusive(score) ==
    IF score >= 30 THEN "Descending into darkness"
    ELSE IF score <= -30 THEN "Finding meaning"
    ELSE "Balanced on the edge"

\* the categorical label of the score line
score_label(score) ==
    IF score > 30 THEN "Descending into darkness"
    ELSE IF score < -30 THEN "Finding meaning"
    ELSE "Balanced on the edge"

\* The String get_narrative_context builds is kept as the sequence of its
\* lines, a line as the record of what its format string is filled with:
\*   "Loop #{}"                 [loop |-> number]
\*   "Nihilism Score: {} ({})"  [score |-> score, label |-> label]
\*   "" and the section titles  [title |-> text]
\*   "- {}" of a memory         [memory |-> text]
\*   "- {}" of a choice         [choice |-> choice id]
title_line(text) == [title |-> text]

\* a variant of get_narrative_context that lists every memory
get_narrative_context_TakeAll(pl) ==
    LET key_memories == pl.memory.key_memories
        choices_made == pl.current_loop.choices_made
    IN  << [loop |-> pl.current_loop.number],
           [score |-> pl.memory.nihilism_score,
            label |-> score_label(pl.memory.nihilism_score)] >>
        \o (IF key_memories # <<>>
            THEN << title_line(""), title_line("Memories that persist:") >>
                 \o [i \in 1..Len(key_memories) |-> [memory |-> key_memories[i]]]
            ELSE <<>>)
        \o (IF choices_made # <<>>
            THEN << title_line(""), title_line("Choices this loop:") >>
                 \o [i \in 1..Len(choices_made) |-> [choice |-> choices_made[i]]]
            ELSE <<>>)

\* Player::get_narrative_context
get_narrative_context(pl) ==
    LET key_memories == pl.memory.key_memories
        choices_made == pl.current_loop.choices_made
    IN  << [loop |-> pl.current_loop.number],
           [score |-> pl.memory.nihilism_score,
            label |-> score_label(pl.memory.nihilism_score)] >>
        \o (IF key_memories # <<>>
            THEN << title_line(""), title_line("Memories that persist:") >>
                 \o [i \in 1..Min(5, Len(key_memories)) |->
                        [memory |-> key_memories[i]]]
            ELSE <<>>)
        \o (IF choices_made # <<>>
            THEN << title_line(""), title_line("Choices this loop:") >>
                 \o [i \in 1..Len(choices_made) |-> [choice |-> choices_made[i]]]
            ELSE <<>>)

----------------------------------------------------------------------------
(* endings.rs: the ending rules.                                           *)

NoEnding == "None"

EndingType ==
    { "VoidEmbrace", "TinyPerfectThings", "JustMonika", "Transcendence",
      "Acceptance", "TheWatcher", "TheMiddlePath" }

\* a variant of the gate that lets a player through on either count
too_early_Either(total_loops, total_choices) ==
    total_loops < 5 /\ total_choices < 20

\* "Need at least 5 loops and 20 choices to reach an ending"
too_early(total_loops, total_choices) ==
    total_loops < 5 \/ total_choices < 20

\* a variant of the balance test that asks for equal counts
is_middle_path_Exact(dark, light) ==
    dark > 15 /\ light > 15 /\ Abs(dark - light) <= 0

\* the conditions of the rules, in the order check_for_ending tests them
is_middle_path(dark, light) ==
    dark > 15 /\ light > 15 /\ Abs(dark - light) <= 2

is_void_embrace(score, dark) ==
    score >= 80 /\ dark >= 30

\* a variant of the rule with light > 25
is_tiny_perfect_things_Strict(score, light, total_loops) ==
    score <= -60 /\ light > 25 /\ total_loops >= 10

is_tiny_perfect_things(score, light, total_loops) ==
    score <= -60 /\ light >= 25 /\ total_loops >= 10

is_just_monika(total_loops, total_choices, score) ==
    total_loops >= 15 /\ total_choices >= 50 /\ Abs(score) <= 30

\* a variant of the rule that lost the sign of its score threshold
is_transcendence_Unsigned(score, light, total_loops) ==
    score <= 80 /\ light >= 40 /\ total_loops >= 8

is_transcendence(score, light, total_loops) ==
    score <= -80 /\ light >= 40 /\ total_loops >= 8

is_the_watcher(total_loops, dark, light) ==
    total_loops >= 20 /\ dark < 20 /\ light < 20

is_acceptance(total_loops, score) ==
    total_loops >= 25 /\ Abs(score) <= 20

\* a variant of check_for_ending that tests TheWatcher before JustMonika
check_for_ending_WatcherFirst(player) ==
    LET memory == player.memory
        score == memory.nihilism_score
        total_loops == memory.total_loops
        total_choices == memory.total_choices
        dark == memory.dark_choices
        light == memory.light_choices
    IN  IF too_early(total_loops, total_choices) THEN NoEnding
        ELSE IF is_middle_path(dark, light) THEN "TheMiddlePath"
        ELSE IF is_void_embrace(score, dark) THEN "VoidEmbrace"
        ELSE IF is_tiny_perfect_things(score, light, total_loops)
             THEN "TinyPerfectThings"
        ELSE IF is_the_watcher(total_loops, dark, light) THEN "TheWatcher"
        ELSE IF is_just_monika(total_loops, total_choices, score)
             THEN "JustMonika"
        ELSE IF is_transcendence(score, light, total_loops) THEN "Transcendence"
        ELSE IF is_acceptance(total_loops, score) THEN "Acceptance"
        ELSE NoEnding

\* a variant of check_for_ending that tests Transcendence before
\* TinyPerfectThings
check_for_ending_TranscendenceFirst(player) ==
    LET memory == player.memory
        score == memory.nihilism_score
        total_loops == memory.total_loops
        total_choices == memory.total_choices
        dark == memory.dark_choices
        light == memory.light_choices
    IN  IF too_early(total_loops, total_choices) THEN NoEnding
        ELSE IF is_middle_path(dark, light) THEN "TheMiddlePath"
        ELSE IF is_void_embrace(score, dark) THEN "VoidEmbrace"
        ELSE IF is_transcendence(score, light, total_loops) THEN "Transcendence"
        ELSE IF is_tiny_perfect_things(score, light, total_loops)
             THEN "TinyPerfectThings"
        ELSE IF is_just_monika(total_loops, total_choices, score)
             THEN "JustMonika"
        ELSE IF is_the_watcher(total_loops, dark, light) THEN "TheWatcher"
        ELSE IF is_acceptance(total_loops, score) THEN "Acceptance"
        ELSE NoEnding

\* check_for_ending: Some(ending) as the ending's name, None as NoEnding
check_for_ending(player) ==
    LET memory == player.memory
        score == memory.nihilism_score
        total_loops == memory.total_loops
        total_choices == memory.total_choices
        dark == memory.dark_choices
        light == memory.light_choices
    IN  IF too_early(total_loops, total_choices) THEN NoEnding
        ELSE IF is_middle_path(dark, light) THEN "TheMiddlePath"
        ELSE IF is_void_embrace(score, dark) THEN "VoidEmbrace"
        ELSE IF is_tiny_perfect_things(score, light, total_loops)
             THEN "TinyPerfectThings"
        ELSE IF is_just_monika(total_loops, total_choices, score)
             THEN "JustMonika"
        ELSE IF is_transcendence(score, light, total_loops) THEN "Transcendence"
        ELSE IF is_the_watcher(total_loops, dark, light) THEN "TheWatcher"
        ELSE IF is_acceptance(total_loops, score) THEN "Acceptance"
        ELSE NoEnding

----------------------------------------------------------------------------
(* The values the model draws its inputs from.                             *)

\* the ids Uuid::new_v4() can draw, and the request slots
PlayerIds == {1}
ReqIds == {1, 2}

\* a request that has not been made, or has returned
Idle == "idle"

\* reply is how the generator's reply was read, once it has been received
IdleReq ==
    [ kind |-> Idle, pc |-> Idle, pid |-> 0, choice |-> None,
      player |-> None, reply |-> None, moment |-> None, resp |-> None ]

\* the choice requests a client sends: (choice_id, choice_text)
ChoiceRequests ==
    { [choice_id |-> <<"g","o">>, choice_text |-> <<"s","t","a","y">>],
      [choice_id |-> <<"H","u","r","t">>, choice_text |-> <<"s","t","a","y">>] }

ChoiceIds == { c.choice_id : c \in ChoiceRequests }

\* no call of check_for_ending has returned yet
Unset == "Unset"

\* GameState::new(), an empty data directory, no request in flight
Init ==
    /\ players = EmptyMap
    /\ disk = EmptyMap
    /\ lock = [writer |-> 0, readers |-> {}]
    /\ reqs = [r \in ReqIds |-> IdleReq]
    /\ result = Unset

\* one freshly created player (GameState::create_player), nothing else
InitPlayer ==
    /\ players = map_insert(EmptyMap, 1, Player_new)
    /\ disk = EmptyMap
    /\ lock = [writer |-> 0, readers |-> {}]
    /\ reqs = [r \in ReqIds |-> IdleReq]
    /\ result = Unset

----------------------------------------------------------------------------
(* The core operations applied to a player of the registry, one call per   *)
(* step, as a caller holding exclusive access to the record makes them.    *)

\* a variant of record_choice that refuses a choice once an ending is reached
record_choice_UntilEnding(p, choice_id, is_dark) ==
    /\ contains_key(players, p)
    /\ check_for_ending(players[p]) = NoEnding
    /\ players' = [players EXCEPT ![p] = Player_make_choice(@, choice_id, is_dark)]
    /\ UNCHANGED <<disk, lock, reqs, result>>

\* player.make_choice(choice_id, is_dark)
record_choice(p, choice_id, is_dark) ==
    /\ contains_key(players, p)
    /\ players' = [players EXCEPT ![p] = Player_make_choice(@, choice_id, is_dark)]
    /\ UNCHANGED <<disk, lock, reqs, result>>

\* player.reset_loop()
core_reset_loop(p) ==
    /\ contains_key(players, p)
    /\ players' = [players EXCEPT ![p] = Player_reset_loop(@)]
    /\ UNCHANGED <<disk, lock, reqs, result>>

\* player.narrative_history.push(moment)
append_moment(p, text) ==
    /\ contains_key(players, p)
    /\ players' = [players EXCEPT ![p] = push_moment(@, [text |-> text])]
    /\ UNCHANGED <<disk, lock, reqs, result>>

\* check_for_ending(player), the returned value kept in result
eval_ending(p) ==
    /\ contains_key(players, p)
    /\ result' = check_for_ending(players[p])
    /\ UNCHANGED <<players, disk, lock, reqs>>

----------------------------------------------------------------------------
(* SpecScore: every sequence of make_choice, reset_loop and moment appends *)
(* on a fresh player, deep enough for the score to reach both clamps.      *)

ScoreChoice ==
    \E p \in PlayerIds :
        /\ contains_key(players, p)
        /\ players[p].memory.total_choices < ScoreMaxChoices
        /\ Len(players[p].current_loop.choices_made) < ScoreMaxLoopLen
        /\ \E c \in ChoiceIds, d \in BOOLEAN : record_choice(p, c, d)

ScoreReset ==
    \E p \in PlayerIds :
        /\ contains_key(players, p)
        /\ players[p].memory.total_loops < ScoreMaxLoops
        /\ core_reset_loop(p)

ScoreAppend ==
    \E p \in PlayerIds :
        /\ contains_key(players, p)
        /\ Len(players[p].narrative_history) < ScoreMaxHist
        /\ append_moment(p, 1)

NextScore == ScoreChoice \/ ScoreReset \/ ScoreAppend

SpecScore == InitPlayer /\ [][NextScore]_vars

----------------------------------------------------------------------------
(* SpecMemory: resets and moment appends on a fresh player, with enough    *)
(* loops and enough distinct moment texts for key_memories to fill up.     *)
(* The code only compares moment texts for equality, so a generated text   *)
(* is either a text already retained (the first or the last retained one)  *)
(* or one new text, numbered with the smallest number not retained yet.    *)

retained(pl) == { pl.memory.key_memories[i] : i \in 1..Len(pl.memory.key_memories) }

new_text(pl) ==
    CHOOSE t \in 1..(Len(pl.memory.key_memories) + 1) :
        /\ t \notin retained(pl)
        /\ \A u \in 1..(t - 1) : u \in retained(pl)

\* the texts the generator returns in SpecMemory
memory_texts(pl) ==
    LET km == pl.memory.key_memories IN
    (IF Len(km) > 0 THEN {km[1], km[Len(km)]} ELSE {}) \cup {new_text(pl)}

MemoryAppend ==
    \E p \in PlayerIds :
        /\ contains_key(players, p)
        /\ Len(players[p].narrative_history) < MemMaxHist
        /\ \E t \in memory_texts(players[p]) : append_moment(p, t)

MemoryReset ==
    \E p \in PlayerIds :
        /\ contains_key(players, p)
        /\ players[p].memory.total_loops < MemMaxLoops
        /\ core_reset_loop(p)

MemoryChoice ==
    \E p \in PlayerIds :
        /\ contains_key(players, p)
        /\ players[p].memory.total_choices < MemMaxChoices
        /\ \E c \in ChoiceIds, d \in BOOLEAN : record_choice(p, c, d)

NextMemory == MemoryAppend \/ MemoryReset \/ MemoryChoice

SpecMemory == InitPlayer /\ [][NextMemory]_vars

----------------------------------------------------------------------------
(* SpecEnding: check_for_ending applied to a player whose memory is drawn  *)
(* from values on both sides of every threshold of the rules, and the      *)
(* values of the documented scenarios.                                     *)

EndingScores == { -100, -81, -80, -79, -61, -60, -59, -31, -30, -21, -20,
                  0, 10, 20, 21, 30, 31, 79, 80, 85, 100 }
EndingLoops == { 0, 4, 5, 6, 7, 8, 9, 10, 14, 15, 19, 20, 24, 25 }
EndingChoices == { 0, 19, 20, 40, 49, 50, 60, 70 }
EndingDarks == { 0, 5, 10, 15, 16, 19, 20, 29, 30, 32 }
EndingLights == { 0, 5, 10, 15, 16, 17, 19, 20, 24, 25, 39, 40 }

player_with(score, total_loops, total_choices, dark, light) ==
    [Player_new EXCEPT
        !.current_loop.number = total_loops + 1,
        !.memory.nihilism_score = score,
        !.memory.total_loops = total_loops,
        !.memory.total_choices = total_choices,
        !.memory.dark_choices = dark,
        !.memory.light_choices = light]

InitEnding ==
    /\ \E score \in EndingScores, total_loops \in EndingLoops,
          total_choices \in EndingChoices, dark \in EndingDarks,
          light \in EndingLights :
          players = map_insert(EmptyMap, 1,
                      player_with(score, total_loops, total_choices, dark, light))
    /\ disk = EmptyMap
    /\ lock = [writer |-> 0, readers |-> {}]
    /\ reqs = [r \in ReqIds |-> IdleReq]
    /\ result = Unset

EndingCheck == \E p \in PlayerIds : eval_ending(p)

NextEnding == EndingCheck

SpecEnding == InitEnding /\ [][NextEnding]_vars

----------------------------------------------------------------------------
(* SpecContext: get_narrative_context applied to a player that has been    *)
(* through a number of loops, each of which left a memory, and has then    *)
(* made light and dark choices in its current loop, the light ones first   *)
(* or the dark ones first.  Every score of [-100, 100] is reached.  Once   *)
(* the context is rendered the run ends, so that result is the context of  *)
(* the player as it is.                                                    *)

light_id == <<"g","o">>
dark_id == <<"H","u","r","t">>

\* the choices of the loop are of one kind, or of one kind and then of the
\* other
one_turn(choices_made) ==
    Cardinality({ i \in 1..(Len(choices_made) - 1) :
                    choices_made[i] # choices_made[i + 1] }) <= 1

\* no context has been rendered yet
NoContext == <<>>

InitContext ==
    /\ players = map_insert(EmptyMap, 1, Player_new)
    /\ disk = EmptyMap
    /\ lock = [writer |-> 0, readers |-> {}]
    /\ reqs = [r \in ReqIds |-> IdleReq]
    /\ result = NoContext

\* a moment of a text of its own is appended to a loop without choices
ContextAppend ==
    \E p \in PlayerIds :
        /\ result = NoContext
        /\ contains_key(players, p)
        /\ players[p].memory.total_loops < ContextMaxMemories
        /\ players[p].memory.total_choices = 0
        /\ players[p].narrative_history = <<>>
        /\ append_moment(p, players[p].memory.total_loops + 1)

\* the loop with its moment is reset
ContextReset ==
    \E p \in PlayerIds :
        /\ result = NoContext
        /\ contains_key(players, p)
        /\ players[p].narrative_history # <<>>
        /\ core_reset_loop(p)

ContextChoice ==
    \E p \in PlayerIds, d \in BOOLEAN :
        /\ result = NoContext
        /\ contains_key(players, p)
        /\ players[p].narrative_history = <<>>
        /\ IF d THEN players[p].memory.dark_choices < ContextMaxDarks
                ELSE players[p].memory.light_choices < ContextMaxLights
        /\ one_turn(Append(players[p].current_loop.choices_made,
                           IF d THEN dark_id ELSE light_id))
        /\ record_choice(p, IF d THEN dark_id ELSE light_id, d)

\* player.get_narrative_context(), the returned value kept in result
eval_context(p) ==
    /\ result = NoContext
    /\ contains_key(players, p)
    /\ result' = get_narrative_context(players[p])
    /\ UNCHANGED <<players, disk, lock, reqs>>

ContextCheck == \E p \in PlayerIds : eval_context(p)

NextContext == ContextAppend \/ ContextReset \/ ContextChoice \/ ContextCheck

SpecContext == InitContext /\ [][NextContext]_vars

----------------------------------------------------------------------------
(* persistence.rs: the store of saved snapshots.                           *)

\* save_player: the file is written (ok), or an I/O error leaves it as it was
save_player(d, id, player, ok) == IF ok THEN map_insert(d, id, player) ELSE d

\* load_player, when no I/O error occurs: Ok(Some(player)) or Ok(None)
load_player(d, id) == map_get(d, id)

----------------------------------------------------------------------------
(* routes.rs: the choice classifier of make_choice.                        *)

IdKeywords ==
    { <<"d","a","r","k">>, <<"h","u","r","t">>, <<"i","g","n","o","r","e">>,
      <<"n","i","h","i","l">>, <<"c","r","u","e","l">>,
      <<"a","b","a","n","d","o","n">> }

TextKeywords ==
    { <<"k","i","l","l">>, <<"a","b","a","n","d","o","n">>,
      <<"n","o","t","h","i","n","g"," ","m","a","t","t","e","r","s">>,
      <<"d","o","n","'","t"," ","c","a","r","e">>,
      <<"m","e","a","n","i","n","g","l","e","s","s">>,
      <<"l","e","a","v","e"," ","t","h","e","m">>,
      <<"w","a","l","k"," ","a","w","a","y">> }

\* a variant of the heuristic that does not lower-case the id
is_dark_choice_CaseSensitive(choice_id, choice_text) ==
    LET choice_lower == to_lowercase(choice_text)
    IN  \/ \E k \in IdKeywords : str_contains(choice_id, k)
        \/ \E k \in TextKeywords : str_contains(choice_lower, k)

\* the is_dark heuristic
is_dark_choice(choice_id, choice_text) ==
    LET choice_lower == to_lowercase(choice_text)
        id_lower == to_lowercase(choice_id)
    IN  \/ \E k \in IdKeywords : str_contains(id_lower, k)
        \/ \E k \in TextKeywords : str_contains(choice_lower, k)

----------------------------------------------------------------------------
(* routes.rs: the handlers.  A handler runs in a request slot r; reqs[r].pc *)
(* is the place it has reached.  Taking the registry lock is a step of its  *)
(* own; what a handler does while it holds the lock, up to the release, is  *)
(* the next step.  The calls that are awaited or made without the lock (the *)
(* generator, the auto-save of make_choice, the disk read of load_game) are *)
(* steps of their own.                                                      *)

\* what a handler returns: the status code and, of the body, the ending
\* it reports (NoEnding when it reports none or has no such field)
Response(status, ending) == [status |-> status, ending |-> ending]

OkResponse(ending) == Response("OK", ending)
NotFound == Response("NOT_FOUND", NoEnding)
InternalServerError == Response("INTERNAL_SERVER_ERROR", NoEnding)

\* the handler's task panicked: the connection is closed without a response
NoResponse == Response("NO_RESPONSE", NoEnding)

\* RwLock::write(): granted when nobody holds the lock
write_lock(r) ==
    /\ lock.writer = 0
    /\ lock.readers = {}
    /\ lock' = [lock EXCEPT !.writer = r]

\* RwLock::read(): granted when no writer holds the lock
read_lock(r) ==
    /\ lock.writer = 0
    /\ lock' = [lock EXCEPT !.readers = @ \cup {r}]

\* the guard is dropped
unlock(r) ==
    lock' = [writer |-> IF lock.writer = r THEN 0 ELSE lock.writer,
             readers |-> lock.readers \ {r}]

\* a request arrives; it takes the first free slot
free_slot(r) ==
    /\ reqs[r].pc = Idle
    /\ \A q \in ReqIds : q < r => reqs[q].pc # Idle

arrive(r, kind, pc, p, choice) ==
    /\ free_slot(r)
    /\ reqs' = [reqs EXCEPT ![r] =
                  [IdleReq EXCEPT !.kind = kind, !.pc = pc, !.pid = p,
                                  !.choice = choice]]

\* the handler returns resp
return(r, resp) ==
    reqs' = [reqs EXCEPT ![r] = [IdleReq EXCEPT !.resp = Some(resp)]]

goto(r, pc) == reqs' = [reqs EXCEPT ![r].pc = pc]

\* GameState::create_player, with the id Uuid::new_v4() drew
create_player(m, id) == map_insert(m, id, Player_new)

\* ---- new_game
new_game_lock(r) ==
    /\ \E p \in PlayerIds : ~contains_key(players, p)
    /\ arrive(r, "new_game", "new_game_create", 0, None)
    /\ write_lock(r)
    /\ UNCHANGED <<players, disk, result>>

new_game_create(r) ==
    /\ reqs[r].pc = "new_game_create"
    /\ \E p \in PlayerIds, ok \in BOOLEAN :
          /\ ~contains_key(players, p)
          /\ ~contains_key(disk, p)
          /\ players' = create_player(players, p)
          /\ disk' = save_player(disk, p, Player_new, ok)
          /\ return(r, OkResponse(NoEnding))
    /\ unlock(r)
    /\ UNCHANGED result

\* ---- load_game
load_game_read(r, p) ==
    /\ free_slot(r)
    /\ \/ \* Ok(Some(player))
          /\ contains_key(disk, p)
          /\ reqs' = [reqs EXCEPT ![r] =
                        [IdleReq EXCEPT !.kind = "load_game", !.pid = p,
                                        !.pc = "load_game_lock_write",
                                        !.player = load_player(disk, p)]]
       \/ \* Ok(None)
          /\ ~contains_key(disk, p)
          /\ reqs' = [reqs EXCEPT ![r] =
                        [IdleReq EXCEPT !.kind = "load_game", !.pid = p,
                                        !.pc = "load_game_lock_read"]]
       \/ \* Err(e): the file cannot be read or parsed
          /\ contains_key(disk, p)
          /\ return(r, InternalServerError)
    /\ UNCHANGED <<players, disk, lock, result>>

load_game_lock_write(r) ==
    /\ reqs[r].pc = "load_game_lock_write"
    /\ write_lock(r)
    /\ goto(r, "load_game_insert")
    /\ UNCHANGED <<players, disk, result>>

load_game_insert(r) ==
    /\ reqs[r].pc = "load_game_insert"
    /\ LET player == unwrap(reqs[r].player) IN
          /\ players' = map_insert(players, reqs[r].pid, player)
          /\ return(r, OkResponse(NoEnding))
    /\ unlock(r)
    /\ UNCHANGED <<disk, result>>

load_game_lock_read(r) ==
    /\ reqs[r].pc = "load_game_lock_read"
    /\ read_lock(r)
    /\ goto(r, "load_game_check")
    /\ UNCHANGED <<players, disk, result>>

load_game_check(r) ==
    /\ reqs[r].pc = "load_game_check"
    /\ LET found == map_get(players, reqs[r].pid) IN
          IF is_some(found)
          THEN return(r, OkResponse(NoEnding))
          ELSE return(r, NotFound)
    /\ unlock(r)
    /\ UNCHANGED <<players, disk, result>>

\* ---- save_game
save_game_lock(r, p) ==
    /\ arrive(r, "save_game", "save_game_write", p, None)
    /\ read_lock(r)
    /\ UNCHANGED <<players, disk, result>>

save_game_write(r) ==
    /\ reqs[r].pc = "save_game_write"
    /\ LET found == map_get(players, reqs[r].pid) IN
          IF is_some(found)
          THEN \E ok \in BOOLEAN :
                  /\ disk' = save_player(disk, reqs[r].pid, unwrap(found), ok)
                  /\ return(r, OkResponse(NoEnding))
          ELSE /\ return(r, NotFound)
               /\ UNCHANGED disk
    /\ unlock(r)
    /\ UNCHANGED <<players, result>>

\* ---- get_game_state and check_ending: both read the player and report
\* check_for_ending(player)
query_lock(r, p, kind) ==
    /\ kind \in {"get_game_state", "check_ending"}
    /\ arrive(r, kind, "query_read", p, None)
    /\ read_lock(r)
    /\ UNCHANGED <<players, disk, result>>

query_read(r) ==
    /\ reqs[r].pc = "query_read"
    /\ LET found == map_get(players, reqs[r].pid) IN
          IF is_some(found)
          THEN return(r, OkResponse(check_for_ending(unwrap(found))))
          ELSE return(r, NotFound)
    /\ unlock(r)
    /\ UNCHANGED <<players, disk, result>>

\* ---- the tail start_narrative and make_choice share: the generator call,
\* then the append under the write lock

\* llm.rs: what LlmClient::generate_narrative makes of the reply of the model
\* server.  The reply's content is the JSON object the prompt asks for
\* ("json"), or any other text ("plain").
ReplyKinds == {"json", "plain"}

\* serde_json::from_str::<NarrativeResponse>(content)
parse_narrative(kind, text) == IF kind = "json" THEN Some([text |-> text]) ELSE None

\* ... .unwrap_or_else(|_| NarrativeResponse { text: content.clone(), .. }),
\* then Ok(NarrativeMoment { text: narrative.text, .. })
narrative_moment(kind, text) ==
    LET parsed == parse_narrative(kind, text) IN
    IF is_some(parsed) THEN unwrap(parsed) ELSE [text |-> text]

\* generate_narrative / process_choice returns Ok(moment): the content of the
\* reply was the JSON object asked for
generate_ok(r, text) ==
    /\ reqs[r].pc = "generate"
    /\ reqs' = [reqs EXCEPT ![r].pc = "append_lock",
                            ![r].reply = Some("json"),
                            ![r].moment = Some(narrative_moment("json", text))]
    /\ UNCHANGED <<players, disk, lock, result>>

\* it returns Ok(moment) as well when the content is not that JSON object:
\* the moment is the fallback whose text is the content as received
generate_fallback(r, text) ==
    /\ reqs[r].pc = "generate"
    /\ reqs' = [reqs EXCEPT ![r].pc = "append_lock",
                            ![r].reply = Some("plain"),
                            ![r].moment = Some(narrative_moment("plain", text))]
    /\ UNCHANGED <<players, disk, lock, result>>

\* a variant of generate_err in which the handler goes on with a default
\* moment instead of returning
generate_err_DefaultMoment(r) ==
    /\ reqs[r].pc = "generate"
    /\ reqs' = [reqs EXCEPT ![r].pc = "append_lock",
                            ![r].moment = Some([text |-> 1])]
    /\ UNCHANGED <<players, disk, lock, result>>

\* it returns Err(e) (the request cannot be sent, the body cannot be read,
\* the body is not a chat completion): the handler maps it to
\* INTERNAL_SERVER_ERROR and returns
generate_err(r) ==
    /\ reqs[r].pc = "generate"
    /\ return(r, InternalServerError)
    /\ UNCHANGED <<players, disk, lock, result>>

\* the chat completion has no choices: chat_response.choices[0] panics and
\* the handler's task ends there, holding no lock
generate_panic(r) ==
    /\ reqs[r].pc = "generate"
    /\ return(r, NoResponse)
    /\ UNCHANGED <<players, disk, lock, result>>

append_lock(r) ==
    /\ reqs[r].pc = "append_lock"
    /\ write_lock(r)
    /\ goto(r, "append")
    /\ UNCHANGED <<players, disk, result>>

\* a variant of append that writes the handler's clone back with the moment
append_WriteBackClone(r) ==
    /\ reqs[r].pc = "append"
    /\ LET p == reqs[r].pid
           moment == unwrap(reqs[r].moment)
       IN  IF contains_key(players, p)
           THEN LET pushed == push_moment(unwrap(reqs[r].player), moment) IN
                /\ players' = [players EXCEPT ![p] = pushed]
                /\ return(r, OkResponse(check_for_ending(pushed)))
           ELSE /\ return(r, OkResponse(NoEnding))
                /\ UNCHANGED players
    /\ unlock(r)
    /\ UNCHANGED <<disk, result>>

append(r) ==
    /\ reqs[r].pc = "append"
    /\ LET p == reqs[r].pid
           moment == unwrap(reqs[r].moment)
       IN  IF contains_key(players, p)
           THEN LET pushed == push_moment(players[p], moment) IN
                /\ players' = [players EXCEPT ![p] = pushed]
                /\ return(r, OkResponse(check_for_ending(pushed)))
           ELSE /\ return(r, OkResponse(NoEnding))
                /\ UNCHANGED players
    /\ unlock(r)
    /\ UNCHANGED <<disk, result>>

\* ---- start_narrative
start_narrative_lock(r, p) ==
    /\ arrive(r, "start_narrative", "start_narrative_clone", p, None)
    /\ read_lock(r)
    /\ UNCHANGED <<players, disk, result>>

\* a variant of start_narrative_clone that keeps the read guard
start_narrative_clone_KeepLock(r) ==
    /\ reqs[r].pc = "start_narrative_clone"
    /\ LET found == map_get(players, reqs[r].pid) IN
          IF is_some(found)
          THEN /\ reqs' = [reqs EXCEPT ![r].pc = "generate", ![r].player = found]
               /\ UNCHANGED lock
          ELSE /\ return(r, NotFound)
               /\ unlock(r)
    /\ UNCHANGED <<players, disk, result>>

start_narrative_clone(r) ==
    /\ reqs[r].pc = "start_narrative_clone"
    /\ LET found == map_get(players, reqs[r].pid) IN
          IF is_some(found)
          THEN reqs' = [reqs EXCEPT ![r].pc = "generate", ![r].player = found]
          ELSE return(r, NotFound)
    /\ unlock(r)
    /\ UNCHANGED <<players, disk, result>>

\* ---- make_choice
make_choice_lock(r, p, request) ==
    /\ arrive(r, "make_choice", "make_choice_record", p, Some(request))
    /\ write_lock(r)
    /\ UNCHANGED <<players, disk, result>>

\* a variant of make_choice_record that creates the player it does not find
make_choice_record_CreateMissing(r) ==
    /\ reqs[r].pc = "make_choice_record"
    /\ LET p == reqs[r].pid
           request == unwrap(reqs[r].choice)
           found == IF contains_key(players, p) THEN players[p] ELSE Player_new
           is_dark == is_dark_choice(request.choice_id, request.choice_text)
           player == Player_make_choice(found, request.choice_id, is_dark)
       IN  /\ players' = map_insert(players, p, player)
           /\ reqs' = [reqs EXCEPT ![r].pc = "make_choice_autosave",
                                   ![r].player = Some(player)]
    /\ unlock(r)
    /\ UNCHANGED <<disk, result>>

make_choice_record(r) ==
    /\ reqs[r].pc = "make_choice_record"
    /\ LET p == reqs[r].pid
           request == unwrap(reqs[r].choice)
       IN  IF contains_key(players, p)
           THEN LET is_dark == is_dark_choice(request.choice_id, request.choice_text)
                    player == Player_make_choice(players[p], request.choice_id, is_dark)
                IN  /\ players' = [players EXCEPT ![p] = player]
                    /\ reqs' = [reqs EXCEPT ![r].pc = "make_choice_autosave",
                                            ![r].player = Some(player)]
           ELSE /\ return(r, NotFound)
                /\ UNCHANGED players
    /\ unlock(r)
    /\ UNCHANGED <<disk, result>>

\* a variant of make_choice_autosave that saves after every second choice
make_choice_autosave_EverySecond(r) ==
    /\ reqs[r].pc = "make_choice_autosave"
    /\ LET player == unwrap(reqs[r].player) IN
          IF player.memory.total_choices % 2 = 0
          THEN \E ok \in BOOLEAN : disk' = save_player(disk, reqs[r].pid, player, ok)
          ELSE UNCHANGED disk
    /\ goto(r, "generate")
    /\ UNCHANGED <<players, lock, result>>

make_choice_autosave(r) ==
    /\ reqs[r].pc = "make_choice_autosave"
    /\ LET player == unwrap(reqs[r].player) IN
          IF player.memory.total_choices % 3 = 0
          THEN \E ok \in BOOLEAN : disk' = save_player(disk, reqs[r].pid, player, ok)
          ELSE UNCHANGED disk
    /\ goto(r, "generate")
    /\ UNCHANGED <<players, lock, result>>

\* ---- reset_loop
\* a variant of reset_loop_lock that takes the read guard
reset_loop_lock_ReadGuard(r, p) ==
    /\ arrive(r, "reset_loop", "reset_loop_reset", p, None)
    /\ read_lock(r)
    /\ UNCHANGED <<players, disk, result>>

reset_loop_lock(r, p) ==
    /\ arrive(r, "reset_loop", "reset_loop_reset", p, None)
    /\ write_lock(r)
    /\ UNCHANGED <<players, disk, result>>

\* a variant of reset_loop_reset that resets every player of the registry
reset_loop_reset_AllPlayers(r) ==
    /\ reqs[r].pc = "reset_loop_reset"
    /\ LET p == reqs[r].pid IN
          IF contains_key(players, p)
          THEN LET player == Player_reset_loop(players[p]) IN
               /\ players' = [q \in DOMAIN players |-> Player_reset_loop(players[q])]
               /\ \E ok \in BOOLEAN : disk' = save_player(disk, p, player, ok)
               /\ return(r, OkResponse(NoEnding))
          ELSE /\ return(r, NotFound)
               /\ UNCHANGED <<players, disk>>
    /\ unlock(r)
    /\ UNCHANGED result

reset_loop_reset(r) ==
    /\ reqs[r].pc = "reset_loop_reset"
    /\ LET p == reqs[r].pid IN
          IF contains_key(players, p)
          THEN LET player == Player_reset_loop(players[p]) IN
               /\ players' = [players EXCEPT ![p] = player]
               /\ \E ok \in BOOLEAN : disk' = save_player(disk, p, player, ok)
               /\ return(r, OkResponse(NoEnding))
          ELSE /\ return(r, NotFound)
               /\ UNCHANGED <<players, disk>>
    /\ unlock(r)
    /\ UNCHANGED result

\* ---- reset_loop, statement by statement: the handler holds the write
\* guard from reset_loop_lock until it returns
reset_loop_find(r) ==
    /\ reqs[r].pc = "reset_loop_reset"
    /\ IF contains_key(players, reqs[r].pid)
       THEN /\ goto(r, "reset_count")
            /\ UNCHANGED lock
       ELSE /\ return(r, NotFound)
            /\ unlock(r)
    /\ UNCHANGED <<players, disk, result>>

reset_count(r) ==
    /\ reqs[r].pc = "reset_count"
    /\ players' = [players EXCEPT ![reqs[r].pid] = count_loop(@)]
    /\ goto(r, "reset_capture")
    /\ UNCHANGED <<disk, lock, result>>

reset_capture(r) ==
    /\ reqs[r].pc = "reset_capture"
    /\ players' = [players EXCEPT ![reqs[r].pid] = capture_memory(@)]
    /\ goto(r, "reset_replace")
    /\ UNCHANGED <<disk, lock, result>>

reset_replace(r) ==
    /\ reqs[r].pc = "reset_replace"
    /\ players' = [players EXCEPT ![reqs[r].pid] = replace_loop(@)]
    /\ goto(r, "reset_clear")
    /\ UNCHANGED <<disk, lock, result>>

\* the last statement of Player::reset_loop, then the save and the response
reset_clear(r) ==
    /\ reqs[r].pc = "reset_clear"
    /\ LET p == reqs[r].pid
           player == clear_history(players[p])
       IN  /\ players' = [players EXCEPT ![p] = player]
           /\ \E ok \in BOOLEAN : disk' = save_player(disk, p, player, ok)
           /\ return(r, OkResponse(NoEnding))
    /\ unlock(r)
    /\ UNCHANGED result

----------------------------------------------------------------------------
(* The bounds of a run: a request is not made once the player has made     *)
(* max_choices choices or max_loops resets, and the generator does not     *)
(* answer a request whose moment would be the max_hist + 1st of the loop.  *)

\* the moments of player p that are generated and not appended yet
pending_moments(p) ==
    Cardinality({ q \in ReqIds : reqs[q].pid = p /\ is_some(reqs[q].moment) })

choices_left(p, max_choices) ==
    contains_key(players, p) => players[p].memory.total_choices < max_choices

loops_left(p, max_loops) ==
    contains_key(players, p) => players[p].memory.total_loops < max_loops

moments_left(r, max_hist) ==
    contains_key(players, reqs[r].pid) =>
        Len(players[reqs[r].pid].narrative_history)
            + pending_moments(reqs[r].pid) < max_hist

\* the handlers that change a player: new_game, start_narrative, make_choice
\* and reset_loop
game_handlers(r, max_choices, max_loops, max_text, max_hist) ==
    \/ new_game_lock(r)
    \/ new_game_create(r)
    \/ \E p \in PlayerIds : start_narrative_lock(r, p)
    \/ start_narrative_clone(r)
    \/ \E p \in PlayerIds, request \in ChoiceRequests :
          choices_left(p, max_choices) /\ make_choice_lock(r, p, request)
    \/ make_choice_record(r)
    \/ make_choice_autosave(r)
    \/ \E text \in 1..max_text : moments_left(r, max_hist) /\ generate_ok(r, text)
    \/ \E text \in 1..max_text :
          moments_left(r, max_hist) /\ generate_fallback(r, text)
    \/ generate_err(r)
    \/ generate_panic(r)
    \/ append_lock(r)
    \/ append(r)
    \/ \E p \in PlayerIds : loops_left(p, max_loops) /\ reset_loop_lock(r, p)
    \/ reset_loop_reset(r)

\* the handlers that read a player: get_game_state and check_ending
query_handlers(r) ==
    \/ \E p \in PlayerIds, kind \in {"get_game_state", "check_ending"} :
          query_lock(r, p, kind)
    \/ query_read(r)

\* the handlers of the store: load_game and save_game
store_handlers(r) ==
    \/ \E p \in PlayerIds : load_game_read(r, p)
    \/ load_game_lock_write(r)
    \/ load_game_insert(r)
    \/ load_game_lock_read(r)
    \/ load_game_check(r)
    \/ \E p \in PlayerIds : save_game_lock(r, p)
    \/ save_game_write(r)

----------------------------------------------------------------------------
(* Spec: the requests that change a player and the queries, two of them in *)
(* flight at a time, interleaved at every await.                           *)

Next ==
    \E r \in ReqIds :
        \/ game_handlers(r, MaxChoices, MaxLoops, MaxText, MaxHist)
        \/ query_handlers(r)

Spec == Init /\ [][Next]_vars

----------------------------------------------------------------------------
(* SpecService: every handler of the service, one request at a time.       *)

NextService ==
    \E r \in {1} :
        \/ game_handlers(r, SvcMaxChoices, SvcMaxLoops, SvcMaxText, SvcMaxHist)
        \/ query_handlers(r)
        \/ store_handlers(r)

SpecService == Init /\ [][NextService]_vars

----------------------------------------------------------------------------
(* SpecPlayers: two players, created by two new_game requests of which the  *)
(* second could not write its file.  Request slot 1 carries the requests    *)
(* for player 1 and slot 2 those for player 2, so that the requests for one *)
(* player interleave with those for the other at every await.  The          *)
(* generator answers with a moment or with an error.                        *)

TwoPlayers == {1, 2}

InitPlayers ==
    /\ players = create_player(create_player(EmptyMap, 1), 2)
    /\ disk = save_player(save_player(EmptyMap, 1, Player_new, TRUE),
                          2, Player_new, FALSE)
    /\ lock = [writer |-> 0, readers |-> {}]
    /\ reqs = [r \in ReqIds |-> IdleReq]
    /\ result = Unset

NextPlayers ==
    \E r \in ReqIds :
        \/ start_narrative_lock(r, r)
        \/ start_narrative_clone(r)
        \/ /\ choices_left(r, PairMaxChoices)
           /\ make_choice_lock(r, r, [choice_id |-> dark_id, choice_text |-> light_id])
        \/ make_choice_record(r)
        \/ make_choice_autosave(r)
        \/ moments_left(r, PairMaxHist) /\ generate_ok(r, 1)
        \/ generate_err(r)
        \/ append_lock(r)
        \/ append(r)
        \/ loops_left(r, PairMaxLoops) /\ reset_loop_lock(r, r)
        \/ reset_loop_reset(r)
        \/ load_game_read(r, r)
        \/ load_game_lock_write(r)
        \/ load_game_insert(r)
        \/ load_game_lock_read(r)
        \/ load_game_check(r)
        \/ save_game_lock(r, r)
        \/ save_game_write(r)

SpecPlayers == InitPlayers /\ [][NextPlayers]_vars

----------------------------------------------------------------------------
(* SpecClassify: make_choice requests on one player, their ids and texts    *)
(* drawn from strings with and without the keywords: empty, in other case,  *)
(* inside a longer word, cut short, and with the keywords of the id in the  *)
(* text and the other way round.  The generator answers with an error.      *)

ClassifyIds ==
    { <<>>,
      <<"g","o">>,
      <<"d","a","r","k">>,
      <<"D","A","R","K">>,
      <<"H","u","r","t">>,
      <<"r","e","i","g","n","o","r","e">>,
      <<"N","i","h","i","l","i","s","t">>,
      <<"c","r","u","e","l">>,
      <<"a","b","a","n","d","o","n">>,
      <<"k","i","l","l">>,
      <<"d","a","r"," ","k">>,
      <<"h","u","r">>,
      <<"w","a","l","k"," ","a","w","a","y">>,
      <<"m","e","a","n","i","n","g","l","e","s","s">> }

ClassifyTexts ==
    { <<>>,
      <<"s","t","a","y">>,
      <<"k","i","l","l">>,
      <<"K","I","L","L">>,
      <<"s","k","i","l","l","e","d">>,
      <<"A","b","a","n","d","o","n">>,
      <<"N","o","t","h","i","n","g"," ","M","a","t","t","e","r","s">>,
      <<"n","o","t","h","i","n","g"," "," ","m","a","t","t","e","r","s">>,
      <<"d","o","n","'","t"," ","c","a","r","e">>,
      <<"d","o","n","t"," ","c","a","r","e">>,
      <<"m","e","a","n","i","n","g","l","e","s","s">>,
      <<"l","e","a","v","e"," ","t","h","e","m">>,
      <<"l","e","a","v","e">>,
      <<"W","a","l","k"," ","A","w","a","y">>,
      <<"w","a","l","k","a","w","a","y">>,
      <<"d","a","r","k">>,
      <<"h","u","r","t">> }

ClassifyRequests ==
    { [choice_id |-> i, choice_text |-> t] : i \in ClassifyIds, t \in ClassifyTexts }

NextClassify ==
    \E r \in {1} :
        \/ \E p \in PlayerIds, request \in ClassifyRequests :
              choices_left(p, ClassifyMaxChoices) /\ make_choice_lock(r, p, request)
        \/ make_choice_record(r)
        \/ make_choice_autosave(r)
        \/ generate_err(r)

SpecClassify == InitPlayer /\ [][NextClassify]_vars

----------------------------------------------------------------------------
(* SpecAtomic: the requests on one player, two at a time, with reset_loop   *)
(* taken statement by statement, so that every state between two of its    *)
(* statements is a state of the model.                                     *)

NextAtomic ==
    \E r \in ReqIds :
        \/ \E p \in PlayerIds : start_narrative_lock(r, p)
        \/ start_narrative_clone(r)
        \/ \E p \in PlayerIds :
              /\ choices_left(p, AtomicMaxChoices)
              /\ make_choice_lock(r, p, [choice_id |-> dark_id, choice_text |-> light_id])
        \/ make_choice_record(r)
        \/ make_choice_autosave(r)
        \/ moments_left(r, AtomicMaxHist) /\ generate_ok(r, 1)
        \/ generate_err(r)
        \/ append_lock(r)
        \/ append(r)
        \/ \E p \in PlayerIds : loops_left(p, AtomicMaxLoops) /\ reset_loop_lock(r, p)
        \/ reset_loop_find(r)
        \/ reset_count(r)
        \/ reset_capture(r)
        \/ reset_replace(r)
        \/ reset_clear(r)
        \/ \E p \in PlayerIds : save_game_lock(r, p)
        \/ save_game_write(r)
        \/ \E p \in PlayerIds, kind \in {"get_game_state", "check_ending"} :
              query_lock(r, p, kind)
        \/ query_read(r)

SpecAtomic == InitPlayer /\ [][NextAtomic]_vars

----------------------------------------------------------------------------
(* SpecUnknown: player 1 is registered and stored, no player has the id 2.  *)
(* The requests that take a player id are made for both ids, one at a time. *)

KnownAndUnknown == {1, 2}

InitUnknown ==
    /\ players = create_player(EmptyMap, 1)
    /\ disk = save_player(EmptyMap, 1, Player_new, TRUE)
    /\ lock = [writer |-> 0, readers |-> {}]
    /\ reqs = [r \in ReqIds |-> IdleReq]
    /\ result = Unset

NextUnknown ==
    \E r \in {1} :
        \/ \E p \in KnownAndUnknown : start_narrative_lock(r, p)
        \/ start_narrative_clone(r)
        \/ \E p \in KnownAndUnknown, request \in ChoiceRequests :
              choices_left(p, UnknownMaxChoices) /\ make_choice_lock(r, p, request)
        \/ make_choice_record(r)
        \/ make_choice_autosave(r)
        \/ moments_left(r, UnknownMaxHist) /\ generate_ok(r, 1)
        \/ generate_err(r)
        \/ append_lock(r)
        \/ append(r)
        \/ \E p \in KnownAndUnknown :
              loops_left(p, UnknownMaxLoops) /\ reset_loop_lock(r, p)
        \/ reset_loop_reset(r)
        \/ \E p \in KnownAndUnknown : save_game_lock(r, p)
        \/ save_game_write(r)
        \/ \E p \in KnownAndUnknown, kind \in {"get_game_state", "check_ending"} :
              query_lock(r, p, kind)
        \/ query_read(r)

SpecUnknown == InitUnknown /\ [][NextUnknown]_vars

----------------------------------------------------------------------------
(* The claims.                                                             *)

\* the players of the registry
Registered == DOMAIN players

\* C1 (SpecScore): in every state reached from a fresh player by make_choice
\* and reset_loop, dark_choices + light_choices = total_choices.
C1_ChoicesAddUp ==
    \A p \in Registered :
        players[p].memory.dark_choices + players[p].memory.light_choices
            = players[p].memory.total_choices

\* dark and light choices have been recorded on both sides of a reset
C1_Witness ==
    \E p \in Registered :
        /\ players[p].memory.dark_choices >= 2
        /\ players[p].memory.light_choices >= 2
        /\ players[p].memory.total_loops >= 1
        /\ Len(players[p].current_loop.choices_made) >= 1

\* C2 (SpecScore): in every state reached from a fresh player by make_choice
\* and reset_loop, nihilism_score is within [-100, 100].
C2_ScoreInRange ==
    \A p \in Registered :
        /\ players[p].memory.nihilism_score >= -100
        /\ players[p].memory.nihilism_score <= 100

\* a dark choice has been recorded at score 100: 21 dark choices and no light
\* one would add up to 105
C2_Witness ==
    \E p \in Registered :
        /\ players[p].memory.dark_choices = 21
        /\ players[p].memory.light_choices = 0
        /\ players[p].memory.nihilism_score = 100

\* C3 (SpecMemory): in every state reached by moment appends, make_choice and
\* reset_loop, key_memories has at most 20 entries and no text twice.
C3_MemoriesBounded ==
    \A p \in Registered :
        LET km == players[p].memory.key_memories IN
        /\ Len(km) <= 20
        /\ \A i, j \in 1..Len(km) : km[i] = km[j] => i = j

\* the 21st reset has run on a player whose 20 earlier resets each retained
\* a text
C3_Witness ==
    \E p \in Registered :
        /\ Len(players[p].memory.key_memories) = 20
        /\ players[p].memory.total_loops = 21
        /\ players[p].narrative_history = <<>>

\* C4 (SpecScore): a reset_loop step leaves narrative_history and the new
\* loop's choices_made empty, sets the loop number to the incremented
\* total_loops + 1, adds exactly 1 to total_loops and leaves total_choices,
\* dark_choices, light_choices and nihilism_score as they were.
C4_ResetFrame ==
    [][\A p \in PlayerIds :
          core_reset_loop(p) =>
             /\ players'[p].narrative_history = <<>>
             /\ players'[p].current_loop.choices_made = <<>>
             /\ players'[p].memory.total_loops = players[p].memory.total_loops + 1
             /\ players'[p].current_loop.number = players'[p].memory.total_loops + 1
             /\ players'[p].memory.total_choices = players[p].memory.total_choices
             /\ players'[p].memory.dark_choices = players[p].memory.dark_choices
             /\ players'[p].memory.light_choices = players[p].memory.light_choices
             /\ players'[p].memory.nihilism_score = players[p].memory.nihilism_score
      ]_vars

\* a reset has run on a loop with choices and a moment: the moment's text is
\* retained, the loop is fresh, the counters carry the choices
C4_Witness ==
    \E p \in Registered :
        /\ players[p].memory.total_loops = 2
        /\ players[p].current_loop.number = 3
        /\ players[p].memory.total_choices = 4
        /\ players[p].memory.nihilism_score = 4
        /\ players[p].memory.key_memories = <<1>>
        /\ players[p].current_loop.choices_made = <<>>
        /\ players[p].narrative_history = <<>>

\* C5 (SpecEnding): check_for_ending returns none for every player with
\* total_loops < 5 or total_choices < 20, whatever the score and the counts
\* of dark and light choices.
C5_NoEndingBeforeGate ==
    \A p \in Registered :
        (/\ result # Unset
         /\ \/ players[p].memory.total_loops < 5
            \/ players[p].memory.total_choices < 20)
        => result = NoEnding

\* the call has returned none for a player short of loops only, whose counts
\* satisfy the first rule
C5_Witness ==
    \E p \in Registered :
        /\ result = NoEnding
        /\ players[p].memory.total_loops = 4
        /\ players[p].memory.total_choices = 20
        /\ players[p].memory.dark_choices = 16
        /\ players[p].memory.light_choices = 16

\* the player's memory is that of a scenario
Scenario(p, total_loops, total_choices, score, dark, light) ==
    /\ players[p].memory.total_loops = total_loops
    /\ players[p].memory.total_choices = total_choices
    /\ players[p].memory.nihilism_score = score
    /\ players[p].memory.dark_choices = dark
    /\ players[p].memory.light_choices = light

\* the rules as section 4.5 of the specification lists them, in its order
ListedRules(m) ==
    << <<"TheMiddlePath",
         m.dark_choices > 15 /\ m.light_choices > 15
            /\ Abs(m.dark_choices - m.light_choices) <= 2>>,
       <<"VoidEmbrace", m.nihilism_score >= 80 /\ m.dark_choices >= 30>>,
       <<"TinyPerfectThings",
         m.nihilism_score <= -60 /\ m.light_choices >= 25 /\ m.total_loops >= 10>>,
       <<"JustMonika",
         m.total_loops >= 15 /\ m.total_choices >= 50 /\ Abs(m.nihilism_score) <= 30>>,
       <<"Transcendence",
         m.nihilism_score <= -80 /\ m.light_choices >= 40 /\ m.total_loops >= 8>>,
       <<"TheWatcher",
         m.total_loops >= 20 /\ m.dark_choices < 20 /\ m.light_choices < 20>>,
       <<"Acceptance", m.total_loops >= 25 /\ Abs(m.nihilism_score) <= 20>> >>

FirstListedMatch(m) ==
    LET rules == ListedRules(m)
        hits == { i \in 1..Len(rules) : rules[i][2] }
    IN  IF hits = {} THEN NoEnding
        ELSE rules[CHOOSE i \in hits : \A j \in hits : i <= j][1]

\* C6 (SpecEnding): for every drawn player that passes the gate,
\* check_for_ending returns the first rule of the listed order that matches,
\* and none when no rule matches; Scenario A yields TheMiddlePath and
\* Scenario B yields VoidEmbrace.
C6_FirstMatchWins ==
    \A p \in Registered :
        result # Unset =>
           /\ (players[p].memory.total_loops >= 5
                 /\ players[p].memory.total_choices >= 20)
              => result = FirstListedMatch(players[p].memory)
           /\ Scenario(p, 5, 20, 0, 16, 17) => result = "TheMiddlePath"
           /\ Scenario(p, 10, 60, 85, 32, 5) => result = "VoidEmbrace"

\* the call has returned for Scenario B
C6_Witness ==
    \E p \in Registered :
        /\ Scenario(p, 10, 60, 85, 32, 5)
        /\ result = "VoidEmbrace"

\* C7 as stated (SpecEnding): for Scenario C check_for_ending returns
\* TheWatcher.
C7_ScenarioC_TheWatcher ==
    \A p \in Registered :
        (result # Unset /\ Scenario(p, 25, 70, 10, 10, 10))
        => result = "TheWatcher"

\* C7 as amended (SpecEnding): for Scenario C check_for_ending returns
\* JustMonika, the fourth rule, which matches too and is tested before
\* TheWatcher and Acceptance.
C7_ScenarioC_JustMonika ==
    \A p \in Registered :
        (result # Unset /\ Scenario(p, 25, 70, 10, 10, 10))
        => /\ result = "JustMonika"
           /\ is_the_watcher(25, 10, 10)
           /\ is_acceptance(25, 10)

\* the call has returned for Scenario C
C7_Witness ==
    \E p \in Registered :
        /\ Scenario(p, 25, 70, 10, 10, 10)
        /\ result \in EndingType

\* C8 as stated (SpecEnding): for Scenario D check_for_ending returns none.
C8_ScenarioD_None ==
    \A p \in Registered :
        (result # Unset /\ Scenario(p, 6, 40, 0, 20, 19))
        => result = NoEnding

\* C8 as amended (SpecEnding): for Scenario D check_for_ending returns
\* TheMiddlePath: dark = 20 and light = 19 are both above 15 and differ by 1.
C8_ScenarioD_TheMiddlePath ==
    \A p \in Registered :
        (result # Unset /\ Scenario(p, 6, 40, 0, 20, 19))
        => result = "TheMiddlePath"

\* the call has returned for Scenario D
C8_Witness ==
    \E p \in Registered :
        /\ Scenario(p, 6, 40, 0, 20, 19)
        /\ result # Unset

\* C9 (SpecScore): a make_choice step with choice id c appends c to the
\* loop's choices_made, adds 1 to total_choices, and, if dark, adds 1 to
\* dark_choices and sets the score to min(score + 5, 100), otherwise adds 1
\* to light_choices and sets the score to max(score - 3, -100); it leaves
\* total_loops, the loop number, key_memories and narrative_history alone.
C9_ChoiceFrame ==
    [][\A p \in PlayerIds, c \in ChoiceIds, d \in BOOLEAN :
          record_choice(p, c, d) =>
             LET old == players[p]
                 new == players'[p]
                 n == Len(old.current_loop.choices_made)
             IN  /\ Len(new.current_loop.choices_made) = n + 1
                 /\ new.current_loop.choices_made[n + 1] = c
                 /\ \A i \in 1..n : new.current_loop.choices_made[i]
                                      = old.current_loop.choices_made[i]
                 /\ new.memory.total_choices = old.memory.total_choices + 1
                 /\ d => /\ new.memory.dark_choices = old.memory.dark_choices + 1
                         /\ new.memory.light_choices = old.memory.light_choices
                         /\ new.memory.nihilism_score
                              = (IF old.memory.nihilism_score + 5 > 100 THEN 100
                                 ELSE old.memory.nihilism_score + 5)
                 /\ ~d => /\ new.memory.light_choices = old.memory.light_choices + 1
                          /\ new.memory.dark_choices = old.memory.dark_choices
                          /\ new.memory.nihilism_score
                               = (IF old.memory.nihilism_score - 3 < -100 THEN -100
                                  ELSE old.memory.nihilism_score - 3)
                 /\ new.memory.total_loops = old.memory.total_loops
                 /\ new.current_loop.number = old.current_loop.number
                 /\ new.memory.key_memories = old.memory.key_memories
                 /\ new.narrative_history = old.narrative_history
      ]_vars

\* two choices with different ids have been recorded in a loop that has a
\* moment and follows a loop that left a memory, the last of them a light
\* choice recorded at score -100
C9_Witness ==
    \E p \in Registered :
        /\ Len(players[p].current_loop.choices_made) = 2
        /\ players[p].current_loop.choices_made[1]
              # players[p].current_loop.choices_made[2]
        /\ players[p].memory.light_choices = 35
        /\ players[p].memory.dark_choices = 0
        /\ players[p].memory.nihilism_score = -100
        /\ players[p].memory.key_memories = <<1>>
        /\ players[p].narrative_history = <<[text |-> 1]>>

\* C10 as stated (SpecService): over any sequence of service operations on
\* a player, total_loops, total_choices, dark_choices, light_choices and the
\* loop number never decrease.
C10_CountersNeverDecrease ==
    [][\A p \in PlayerIds :
          (p \in DOMAIN players /\ p \in DOMAIN players') =>
             /\ players'[p].memory.total_loops >= players[p].memory.total_loops
             /\ players'[p].memory.total_choices >= players[p].memory.total_choices
             /\ players'[p].memory.dark_choices >= players[p].memory.dark_choices
             /\ players'[p].memory.light_choices >= players[p].memory.light_choices
             /\ players'[p].current_loop.number >= players[p].current_loop.number
      ]_vars

\* C14 (Spec): while the generator call of a start_narrative or make_choice
\* request is in flight the request holds the registry lock neither as writer
\* nor as reader and has its clone of the player; when it appends the moment
\* it holds the write lock.
C14_NoLockDuringGeneration ==
    \A r \in ReqIds :
        /\ reqs[r].pc = "generate" =>
              /\ lock.writer # r
              /\ r \notin lock.readers
              /\ is_some(reqs[r].player)
              /\ reqs[r].kind \in {"start_narrative", "make_choice"}
        /\ reqs[r].pc = "append" =>
              /\ lock.writer = r
              /\ is_some(reqs[r].moment)

\* a make_choice request waits for the generator while another request
\* holds the write lock
C14_Witness ==
    \E r, q \in ReqIds :
        /\ r # q
        /\ reqs[r].pc = "generate"
        /\ reqs[r].kind = "make_choice"
        /\ lock.writer = q

\* C15 as stated (Spec): a request whose generator reply was malformed (its
\* content was not the JSON object asked for) appends no moment to any
\* narrative_history.
C15_MalformedNeverAppended ==
    [][\A r \in ReqIds :
          (/\ reqs[r].pc = "append"
           /\ reqs[r].reply = Some("plain")
           /\ reqs'[r] # reqs[r])
          => \A p \in DOMAIN players :
                /\ p \in DOMAIN players'
                /\ players'[p].narrative_history = players[p].narrative_history
      ]_vars

\* C15 as amended (Spec): a request whose generator call failed (it returned
\* an error, or panicked on a completion without choices) ends without
\* changing any player, and a narrative_history grows only by the append step
\* of a request whose generator call returned a moment, by exactly that
\* moment: the moment parsed from the reply, or, for a reply whose content is
\* not the JSON object asked for, the fallback moment whose text is that
\* content.
C15_FailedGenerationNotAppended ==
    [][/\ \A r \in ReqIds :
             (/\ reqs[r].pc # Idle
              /\ reqs'[r].pc = Idle
              /\ reqs'[r].resp \in {Some(InternalServerError), Some(NoResponse)})
             => players' = players
       /\ \A p \in DOMAIN players :
             (/\ p \in DOMAIN players'
              /\ Len(players'[p].narrative_history)
                    > Len(players[p].narrative_history))
             => \E r \in ReqIds :
                   /\ reqs[r].pc = "append"
                   /\ reqs[r].pid = p
                   /\ reqs'[r].pc = Idle
                   /\ reqs[r].reply \in {Some("json"), Some("plain")}
                   /\ players'[p].narrative_history
                         = Append(players[p].narrative_history,
                                  unwrap(reqs[r].moment))
      ]_vars

\* a make_choice request has recorded its choice and ended with
\* INTERNAL_SERVER_ERROR, and the player's history is still empty
C15_Witness ==
    \E r \in ReqIds, p \in Registered :
        /\ reqs[r].resp = Some(InternalServerError)
        /\ players[p].memory.total_choices = 1
        /\ players[p].memory.total_loops = 0
        /\ players[p].narrative_history = <<>>
        /\ \A q \in ReqIds : reqs[q].pc = Idle

\* C20 as stated (Spec): a request appends its moment only to the loop its
\* snapshot was taken in: at the append, the loop number of the request's
\* clone of the player equals the player's current loop number.
C20_HistoryOfCurrentLoop ==
    [][\A r \in ReqIds :
          (/\ reqs[r].pc = "append"
           /\ reqs'[r].pc = Idle
           /\ contains_key(players, reqs[r].pid))
          => unwrap(reqs[r].player).current_loop.number
               = players[reqs[r].pid].current_loop.number
      ]_vars

\* x is the line rec
IsLine(x, rec) == DOMAIN x = DOMAIN rec /\ x = rec

\* C12 (SpecContext): the rendered context is, in this order, the loop
\* header, the score line, a memory section present exactly when key_memories
\* is non-empty and listing exactly its first min(5, len) entries in stored
\* order, and a choices section present exactly when the current loop has
\* choices and listing all of them in the order made; for a freshly created
\* player it is exactly the header and the score line.
C12_ContextLayout ==
    \A p \in Registered :
        result # NoContext =>
           LET pl == players[p]
               km == pl.memory.key_memories
               cm == pl.current_loop.choices_made
               k == IF Len(km) < 5 THEN Len(km) ELSE 5
               base == IF Len(km) = 0 THEN 2 ELSE 4 + k
           IN  /\ Len(result) >= 2
               /\ DOMAIN result[1] = {"loop"}
               /\ result[1].loop = pl.current_loop.number
               /\ DOMAIN result[2] = {"score", "label"}
               /\ result[2].score = pl.memory.nihilism_score
               /\ Len(km) > 0 =>
                     /\ Len(result) >= base
                     /\ IsLine(result[3], [title |-> ""])
                     /\ IsLine(result[4], [title |-> "Memories that persist:"])
                     /\ \A i \in 1..k : IsLine(result[4 + i], [memory |-> km[i]])
               /\ \A i \in 1..Len(result) : DOMAIN result[i] = {"memory"} =>
                     (Len(km) > 0 /\ i > 4 /\ i <= 4 + k)
               /\ Len(cm) = 0 => Len(result) = base
               /\ Len(cm) > 0 =>
                     /\ Len(result) = base + 2 + Len(cm)
                     /\ IsLine(result[base + 1], [title |-> ""])
                     /\ IsLine(result[base + 2], [title |-> "Choices this loop:"])
                     /\ \A i \in 1..Len(cm) :
                           IsLine(result[base + 2 + i], [choice |-> cm[i]])
               /\ pl = Player_new => Len(result) = 2

\* the context has been rendered for a player with six memories and, in its
\* current loop, dark choices followed by light ones
C12_Witness ==
    \E p \in Registered :
        /\ Len(players[p].memory.key_memories) = 6
        /\ Len(players[p].current_loop.choices_made) = 3
        /\ players[p].current_loop.choices_made[1] = dark_id
        /\ players[p].current_loop.choices_made[3] = light_id
        /\ Len(result) = 14

\* C13 (SpecContext): the label of the score line is "Descending into
\* darkness" exactly when score > 30, "Finding meaning" exactly when
\* score < -30 and "Balanced on the edge" exactly when -30 <= score <= 30.
C13_ScoreLabel ==
    \A p \in Registered :
        result # NoContext =>
           LET score == players[p].memory.nihilism_score
               label == result[2].label
           IN  /\ score >= -100 /\ score <= 100
               /\ label = "Descending into darkness" <=> score > 30
               /\ label = "Finding meaning" <=> score < -30
               /\ label = "Balanced on the edge" <=> (score >= -30 /\ score <= 30)

\* the context has been rendered at score 30, the upper end of the balanced
\* range
C13_Witness ==
    \E p \in Registered :
        /\ players[p].memory.nihilism_score = 30
        /\ result # NoContext
        /\ result[2].label = "Balanced on the edge"

\* check_for_ending returns an ending for the player
has_ending(pl) == check_for_ending(pl) \in EndingType

\* C16 (SpecScore): in every reachable state in which check_for_ending
\* returns an ending, a choice of either kind and a reset are enabled; a
\* choice or a reset made from such a state, or leading to one, changes the
\* player exactly as any choice or reset does (the counters, the score, the
\* loop) and nothing else marks the ending in the player.
C16_NoTerminalState ==
    /\ [](\A p \in Registered :
            has_ending(players[p]) =>
               /\ ENABLED core_reset_loop(p)
               /\ \A c \in ChoiceIds, d \in BOOLEAN : ENABLED record_choice(p, c, d))
    /\ [][\A p \in PlayerIds :
            (/\ p \in DOMAIN players
             /\ p \in DOMAIN players'
             /\ (has_ending(players[p]) \/ has_ending(players'[p])))
            => LET old == players[p]
                   new == players'[p]
               IN  /\ core_reset_loop(p) =>
                         /\ new.memory = [old.memory EXCEPT
                                !.total_loops = @ + 1,
                                !.key_memories = new.memory.key_memories]
                         /\ new.current_loop =
                               [number |-> old.current_loop.number + 1,
                                choices_made |-> <<>>]
                         /\ new.narrative_history = <<>>
                   /\ \A c \in ChoiceIds, d \in BOOLEAN :
                         record_choice(p, c, d) =>
                            /\ new.memory.total_choices = old.memory.total_choices + 1
                            /\ new.memory.dark_choices
                                  = old.memory.dark_choices + (IF d THEN 1 ELSE 0)
                            /\ new.memory.light_choices
                                  = old.memory.light_choices + (IF d THEN 0 ELSE 1)
                            /\ new.memory.nihilism_score
                                  = (IF d
                                     THEN (IF old.memory.nihilism_score > 95 THEN 100
                                           ELSE old.memory.nihilism_score + 5)
                                     ELSE (IF old.memory.nihilism_score < -97 THEN -100
                                           ELSE old.memory.nihilism_score - 3))
                            /\ new.memory.total_loops = old.memory.total_loops
                            /\ new.memory.key_memories = old.memory.key_memories
                            /\ new.current_loop =
                                  [old.current_loop EXCEPT
                                     !.choices_made = Append(@, c)]
                            /\ new.narrative_history = old.narrative_history
      ]_vars

\* a choice has been recorded in loop 18 by a player who had reached
\* TheMiddlePath before it and still has that ending after it
C16_Witness ==
    \E p \in Registered :
        /\ players[p].memory.dark_choices = 17
        /\ players[p].memory.light_choices = 17
        /\ players[p].memory.total_loops = 17
        /\ Len(players[p].current_loop.choices_made) = 1
        /\ check_for_ending(players[p]) = "TheMiddlePath"

\* C17 (SpecPlayers): a step that changes the record a player has in the
\* registry, or the snapshot it has in the store, is a step of a request for
\* that player: the choice, reset, start narrative, save and load requests
\* for one player leave every field of the other player unchanged, however
\* the two interleave.
C17_PlayersIndependent ==
    [][\A q \in TwoPlayers :
          /\ (/\ q \in DOMAIN players
               /\ (q \notin DOMAIN players' \/ players'[q] # players[q]))
              => \E r \in ReqIds : reqs'[r] # reqs[r] /\ reqs[r].pid = q
          /\ (/\ q \in DOMAIN disk
               /\ (q \notin DOMAIN disk' \/ disk'[q] # disk[q]))
              => \E r \in ReqIds : reqs'[r] # reqs[r] /\ reqs[r].pid = q
          /\ \A r \in ReqIds :
                (reqs'[r] # reqs[r] /\ reqs[r].pid # 0 /\ reqs[r].pid # q)
                => (/\ (q \in DOMAIN players) = (q \in DOMAIN players')
                    /\ (q \in DOMAIN players => players'[q] = players[q]))
      ]_vars

\* the reset of player 2 has completed while the make_choice request of
\* player 1 waits for the generator: each player carries its own change only
C17_Witness ==
    /\ contains_key(players, 1)
    /\ contains_key(players, 2)
    /\ reqs[1].pc = "generate"
    /\ reqs[1].kind = "make_choice"
    /\ players[1].memory.total_choices = 1
    /\ players[1].memory.total_loops = 0
    /\ players[2].memory.total_choices = 0
    /\ players[2].memory.total_loops = 1
    /\ reqs[2].resp = Some(OkResponse(NoEnding))

\* C18 as stated (SpecEnding): there is a state with a score in [-100, 100]
\* at which the predicates of rule 2 and rule 5 both hold, and a state at
\* which the predicates of rule 6 and rule 7 both hold.  The counts of the
\* drawn player stand for those of the state: when they meet the thresholds
\* that rules 2 and 5 put on the counts, some score of [-100, 100] satisfies
\* both rules, and likewise for rules 6 and 7.
C18_RulesOverlap ==
    \A p \in Registered :
        LET m == players[p].memory IN
        /\ (m.dark_choices >= 30 /\ m.light_choices >= 40 /\ m.total_loops >= 8)
            => \E score \in -100..100 :
                  /\ is_void_embrace(score, m.dark_choices)
                  /\ is_transcendence(score, m.light_choices, m.total_loops)
        /\ (m.total_loops >= 25 /\ m.dark_choices < 20 /\ m.light_choices < 20)
            => \E score \in -100..100 :
                  /\ is_the_watcher(m.total_loops, m.dark_choices, m.light_choices)
                  /\ is_acceptance(m.total_loops, score)

\* C18 as amended (SpecEnding): at no state do the predicates of rule 2 and
\* rule 5 both hold (one asks for a score of at least 80, the other for a
\* score of at most -80); the predicates of rule 6 and rule 7 do both hold at
\* some states, and there check_for_ending never returns Acceptance.
C18_OnlyWatcherAndAcceptanceOverlap ==
    \A p \in Registered :
        LET m == players[p].memory IN
        /\ ~(/\ is_void_embrace(m.nihilism_score, m.dark_choices)
              /\ is_transcendence(m.nihilism_score, m.light_choices, m.total_loops))
        /\ (/\ result # Unset
             /\ is_the_watcher(m.total_loops, m.dark_choices, m.light_choices)
             /\ is_acceptance(m.total_loops, m.nihilism_score))
            => result # "Acceptance"

\* the call has returned TheWatcher for a player at which the predicates of
\* rule 6 and rule 7 both hold
C18_Witness ==
    \E p \in Registered :
        /\ Scenario(p, 25, 40, 0, 10, 10)
        /\ is_the_watcher(25, 10, 10)
        /\ is_acceptance(25, 0)
        /\ result = "TheWatcher"

\* the keywords as the claim lists them
ClaimedIdWords ==
    { <<"d","a","r","k">>,
      <<"h","u","r","t">>,
      <<"i","g","n","o","r","e">>,
      <<"n","i","h","i","l">>,
      <<"c","r","u","e","l">>,
      <<"a","b","a","n","d","o","n">> }

ClaimedTextWords ==
    { <<"k","i","l","l">>,
      <<"a","b","a","n","d","o","n">>,
      <<"n","o","t","h","i","n","g"," ","m","a","t","t","e","r","s">>,
      <<"d","o","n","'","t"," ","c","a","r","e">>,
      <<"m","e","a","n","i","n","g","l","e","s","s">>,
      <<"l","e","a","v","e"," ","t","h","e","m">>,
      <<"w","a","l","k"," ","a","w","a","y">> }

ClaimedDark(request) ==
    \/ \E w \in ClaimedIdWords : str_contains(to_lowercase(request.choice_id), w)
    \/ \E w \in ClaimedTextWords : str_contains(to_lowercase(request.choice_text), w)

\* C19 (SpecClassify): the make_choice handler records a request as a dark
\* choice exactly when the lower-cased id contains one of dark, hurt, ignore,
\* nihil, cruel, abandon or the lower-cased text contains one of kill,
\* abandon, nothing matters, don't care, meaningless, leave them, walk away,
\* and as a light choice otherwise, two empty strings included.
C19_ClassifierTotal ==
    [][\A r \in ReqIds :
          (/\ reqs[r].pc = "make_choice_record"
           /\ reqs'[r].pc = "make_choice_autosave")
          => LET request == unwrap(reqs[r].choice)
                 old == players[reqs[r].pid].memory
                 new == players'[reqs[r].pid].memory
             IN  /\ ClaimedDark(request) =>
                       /\ new.dark_choices = old.dark_choices + 1
                       /\ new.light_choices = old.light_choices
                 /\ ~ClaimedDark(request) =>
                       /\ new.light_choices = old.light_choices + 1
                       /\ new.dark_choices = old.dark_choices
      ]_vars

\* a request with an empty id and an empty text has been recorded as a light
\* choice
C19_Witness ==
    \E r \in ReqIds, p \in Registered :
        /\ reqs[r].pc = "generate"
        /\ reqs[r].choice = Some([choice_id |-> <<>>, choice_text |-> <<>>])
        /\ players[p].memory.light_choices = 1
        /\ players[p].memory.dark_choices = 0

\* C27 (SpecScore): in every state reached from a fresh player by choices
\* and resets in which 5 * dark_choices <= 100 and 3 * light_choices <= 100,
\* nihilism_score = 5 * dark_choices - 3 * light_choices.
C27_ScoreUnclamped ==
    \A p \in Registered :
        LET m == players[p].memory IN
        (5 * m.dark_choices <= 100 /\ 3 * m.light_choices <= 100)
        => m.nihilism_score = 5 * m.dark_choices - 3 * m.light_choices

\* twenty dark choices, the most the condition allows, and light choices
\* among them, across resets
C27_Witness ==
    \E p \in Registered :
        /\ players[p].memory.dark_choices = 20
        /\ players[p].memory.light_choices = 5
        /\ players[p].memory.total_loops >= 12
        /\ players[p].memory.nihilism_score = 85

\* C28 (SpecEnding): check_for_ending returns Transcendence only for players
\* with total_loops equal to 8 or 9; for a player with total_loops >= 10
\* that passes the gate and satisfies the Transcendence predicate it returns
\* an ending tested earlier.
C28_TranscendenceOnlyAtLoops8Or9 ==
    \A p \in Registered :
        LET m == players[p].memory IN
        result # Unset =>
           /\ result = "Transcendence" => m.total_loops \in {8, 9}
           /\ (/\ m.total_loops >= 10
                /\ m.total_choices >= 20
                /\ m.nihilism_score <= -80
                /\ m.light_choices >= 40)
               => result \in {"TheMiddlePath", "VoidEmbrace", "TinyPerfectThings"}

\* the call has returned Transcendence for a player in its ninth loop, and
\* TinyPerfectThings is what the same counts yield from loop ten on
C28_Witness ==
    \E p \in Registered :
        /\ Scenario(p, 9, 60, -80, 0, 40)
        /\ result = "Transcendence"
        /\ check_for_ending(player_with(-80, 10, 60, 0, 40)) = "TinyPerfectThings"

\* C25 (Spec): under every interleaving of the requests on a player, the
\* step of a make_choice request that finds the player adds exactly 1 to
\* total_choices and to exactly one of dark_choices and light_choices, no
\* other step changes these counters, and the append of the moment, after a
\* generator call that may have failed for another request meanwhile,
\* changes narrative_history only.
C25_NoChoiceLostOrDoubled ==
    [][\A p \in DOMAIN players :
          LET old == players[p]
              new == players'[p]
              recorded == \E r \in ReqIds :
                             /\ reqs[r].pc = "make_choice_record"
                             /\ reqs[r].pid = p
                             /\ reqs'[r] # reqs[r]
              appended == \E r \in ReqIds :
                             /\ reqs[r].pc = "append"
                             /\ reqs[r].pid = p
                             /\ reqs'[r] # reqs[r]
          IN  /\ p \in DOMAIN players'
              /\ recorded =>
                    /\ new.memory.total_choices = old.memory.total_choices + 1
                    /\ new.memory.dark_choices + new.memory.light_choices
                          = old.memory.dark_choices + old.memory.light_choices + 1
                    /\ new.memory.dark_choices >= old.memory.dark_choices
                    /\ new.memory.light_choices >= old.memory.light_choices
              /\ ~recorded =>
                    /\ new.memory.total_choices = old.memory.total_choices
                    /\ new.memory.dark_choices = old.memory.dark_choices
                    /\ new.memory.light_choices = old.memory.light_choices
              /\ appended =>
                    /\ new.memory = old.memory
                    /\ new.current_loop = old.current_loop
      ]_vars

\* two make_choice requests are in flight on the same player: the first
\* has its clone with one choice and waits to append, the second has
\* recorded its choice since, and the player counts both
C25_Witness ==
    \E r, q \in ReqIds, p \in Registered :
        /\ r # q
        /\ reqs[r].pc = "append"
        /\ reqs[r].kind = "make_choice"
        /\ reqs[r].pid = p
        /\ unwrap(reqs[r].player).memory.total_choices = 1
        /\ reqs[q].pc = "generate"
        /\ reqs[q].kind = "make_choice"
        /\ reqs[q].pid = p
        /\ players[p].memory.total_choices = 2

\* C26 as stated (Spec): a snapshot written to the store never has a smaller
\* total_loops or total_choices than the snapshot of the same player it
\* replaces.
C26_StoreNeverRegresses ==
    [][\A p \in DOMAIN disk :
          /\ p \in DOMAIN disk'
          /\ disk'[p].memory.total_loops >= disk[p].memory.total_loops
          /\ disk'[p].memory.total_choices >= disk[p].memory.total_choices
      ]_vars

\* the places where a handler, holding the lock, looks its player up
LookupSteps ==
    { "make_choice_record", "reset_loop_reset", "start_narrative_clone",
      "save_game_write", "query_read" }

\* C23 (SpecUnknown): the step in which a make_choice, reset_loop,
\* start_narrative, save_game, get_game_state or check_ending request looks
\* up a player id that is not in the registry returns NOT_FOUND and leaves
\* the registry and the store as they were, and no such request gets past
\* that step.
C23_UnknownPlayerNotFound ==
    /\ [](\A r \in ReqIds :
            (reqs[r].pc \notin LookupSteps \cup {Idle})
                => reqs[r].pid \in Registered)
    /\ [][\A r \in ReqIds :
            (/\ reqs[r].pc \in LookupSteps
             /\ reqs[r].pid \notin Registered
             /\ reqs'[r] # reqs[r])
            => /\ reqs'[r].resp = Some(NotFound)
               /\ reqs'[r].pc = Idle
               /\ players' = players
               /\ disk' = disk
      ]_vars

\* a request for the unknown id has returned NOT_FOUND after player 1 made
\* three choices, reset once and was stored with them: registry and store
\* hold player 1 only
C23_Witness ==
    /\ reqs[1].resp = Some(NotFound)
    /\ DOMAIN players = {1}
    /\ DOMAIN disk = {1}
    /\ players[1].memory.total_choices = 3
    /\ players[1].memory.total_loops = 1
    /\ disk[1] = players[1]

\* C24 (Spec): make_choice changes the store only in its auto-save step, only
\* when the total_choices of the clone it took right after recording the
\* choice is a multiple of 3, and what it writes is that clone (taken in the
\* step that recorded the choice, before this request's moment is appended),
\* whatever other requests did to the player since; when the count is not a
\* multiple of 3 the store is unchanged.  The step of a reset request that
\* resets the player writes the player as reset.  A write that fails leaves
\* the store as it was.
C24_AutoSaveEveryThird ==
    [][\A r \in ReqIds :
          LET p == reqs[r].pid
              stepped == reqs'[r] # reqs[r]
          IN  /\ (reqs[r].pc = "make_choice_record" /\ stepped /\ p \in Registered)
                    => /\ reqs'[r].player = Some(players'[p])
                       /\ reqs'[r].pc = "make_choice_autosave"
                       /\ disk' = disk
              /\ (reqs[r].pc = "make_choice_autosave" /\ stepped)
                    => LET clone == unwrap(reqs[r].player) IN
                       /\ reqs'[r].player = reqs[r].player
                       /\ IF clone.memory.total_choices % 3 = 0
                          THEN disk' \in {disk, map_insert(disk, p, clone)}
                          ELSE disk' = disk
              /\ (reqs[r].kind = "make_choice" /\ stepped
                     /\ reqs[r].pc \in {"generate", "append_lock", "append"})
                    => disk' = disk
              /\ (reqs[r].pc = "reset_loop_reset" /\ stepped /\ p \in Registered)
                    => /\ players'[p] = Player_reset_loop(players[p])
                       /\ disk' \in {disk, map_insert(disk, p, players'[p])}
      ]_vars

\* the third choice has been saved by its request, which now waits for the
\* generator: the store holds the clone with three choices and no moment,
\* while the player has a moment appended by another request since
C24_Witness ==
    \E r \in ReqIds, p \in Registered :
        /\ reqs[r].kind = "make_choice"
        /\ reqs[r].pc = "generate"
        /\ reqs[r].pid = p
        /\ unwrap(reqs[r].player).memory.total_choices = 3
        /\ p \in DOMAIN disk
        /\ disk[p] = unwrap(reqs[r].player)
        /\ Len(players[p].narrative_history) = 1
        /\ disk[p].narrative_history = <<>>

\* the reset has been saved: the store holds the player as reset
C24_ResetWitness ==
    \E p \in Registered :
        /\ p \in DOMAIN disk
        /\ disk[p] = players[p]
        /\ players[p].memory.total_loops = 1
        /\ players[p].memory.total_choices = 2

\* C22 as stated (SpecService): over the operations of the service on a
\* player, key_memories only ever grows at its end, and once it has 20
\* entries it does not change.
C22_MemoriesOnlyGrow ==
    [][\A p \in DOMAIN players :
          LET km == players[p].memory.key_memories
              after == players'[p].memory.key_memories
          IN  /\ p \in DOMAIN players'
              /\ Len(after) >= Len(km)
              /\ SubSeq(after, 1, Len(km)) = km
              /\ (Len(km) = KEY_MEMORIES_CAP => after = km)
      ]_vars

\* C22, the part about reset_loop alone (SpecMemory): a reset appends the
\* text of the last moment when the history is not empty, the text is not
\* in key_memories and key_memories has fewer than 20 entries, and leaves
\* key_memories unchanged otherwise; make_choice and the append of a moment
\* leave it unchanged.
C22_ResetOnlyAppends ==
    [][\A p \in DOMAIN players :
          LET km == players[p].memory.key_memories
              after == players'[p].memory.key_memories
              history == players[p].narrative_history
              is_reset == players'[p].memory.total_loops
                             = players[p].memory.total_loops + 1
              text == history[Len(history)].text
          IN  IF /\ is_reset
                 /\ history # <<>>
                 /\ \A i \in 1..Len(km) : km[i] # text
                 /\ Len(km) < 20
              THEN after = Append(km, text)
              ELSE after = km
      ]_vars

\* the places of reset_loop at which a part of the reset has been applied
PartialReset == {"reset_capture", "reset_replace", "reset_clear"}

\* the requests that hold the registry lock
holds_lock(r) == lock.writer = r \/ r \in lock.readers

numbered(pl) == pl.current_loop.number = pl.memory.total_loops + 1

\* C21 (SpecAtomic): with reset_loop taken statement by statement, a request
\* that has applied a part of a reset is the writer of the registry lock and
\* no other request holds the lock; so every request that holds the lock and
\* is not inside a reset finds no reset half applied and finds
\* current_loop.number = total_loops + 1 for every player.  The same holds
\* of every clone a handler took and of every stored snapshot, and the four
\* statements applied in order are Player::reset_loop.
C21_ResetAtomic ==
    LET partial == { r \in ReqIds : reqs[r].pc \in PartialReset } IN
    /\ \A r \in partial : lock.writer = r /\ lock.readers = {}
    /\ \A r \in ReqIds :
          (holds_lock(r) /\ r \notin partial)
             => /\ partial = {}
                /\ \A p \in Registered : numbered(players[p])
    /\ (partial = {} => \A p \in Registered : numbered(players[p]))
    /\ \A r \in ReqIds : is_some(reqs[r].player) => numbered(unwrap(reqs[r].player))
    /\ \A p \in DOMAIN disk : numbered(disk[p])
    /\ \A r \in ReqIds :
          reqs[r].pc = "reset_count"
             => clear_history(replace_loop(capture_memory(count_loop(players[reqs[r].pid]))))
                  = Player_reset_loop(players[reqs[r].pid])

\* the second reset is half applied (counted and captured, the loop not yet
\* replaced, so its number is stale) while a start_narrative request that
\* cloned the player before waits for the write lock to append its moment
C21_Witness ==
    \E r, q \in ReqIds, p \in Registered :
        /\ reqs[r].pc = "reset_replace"
        /\ reqs[r].pid = p
        /\ lock.writer = r
        /\ players[p].memory.total_loops = 2
        /\ players[p].current_loop.number = 2
        /\ players[p].memory.key_memories = <<1>>
        /\ reqs[q].pc = "append_lock"
        /\ reqs[q].pid = p

====
